---- MODULE Spec2Model ----
(***************************************************************************)
(* The reqline endpoint of src/endpoints/reqline/parse.js: the parser      *)
(* parseReqline, the URL builder buildFullUrl and the POST / handler with  *)
(* its single suspension point, the awaited axios call.                    *)
(*                                                                         *)
(* JavaScript strings are TLA+ strings; the String methods the code uses   *)
(* (startsWith, substring, trim, split, includes) and JSON.parse are       *)
(* operators that compute what the built-ins compute, character by         *)
(* character.                                                              *)
(***************************************************************************)
EXTENDS Integers, Sequences, FiniteSets, TLC

(***************************************************************************)
(* Bounds of the model.                                                    *)
(***************************************************************************)
\* optional segments (index >= 2) appended to the two required ones
MaxSections == 2

(***************************************************************************)
(* String built-ins.                                                       *)
(***************************************************************************)
\* the characters of s at the 1-based positions m..n that lie inside s
Slice(s, m, n) ==
    IF m > n \/ m > Len(s) \/ n < 1 THEN ""
    ELSE SubSeq(s, IF m < 1 THEN 1 ELSE m, IF n > Len(s) THEN Len(s) ELSE n)

\* the character of s at the 1-based position i, "" outside the string
Ch(s, i) == Slice(s, i, i)

\* white space of String.prototype.trim that the inputs can contain
WhiteSpace == {" ", "\t", "\n", "\r"}

\* s.startsWith(p)
StartsWith(s, p) == Len(s) >= Len(p) /\ Slice(s, 1, Len(p)) = p

\* s.substring(n), n a 0-based index
Substring(s, n) == Slice(s, n + 1, Len(s))

RECURSIVE TrimStart(_)
TrimStart(s) ==
    IF Len(s) > 0 /\ Ch(s, 1) \in WhiteSpace THEN TrimStart(Substring(s, 1)) ELSE s

RECURSIVE TrimEnd(_)
TrimEnd(s) ==
    IF Len(s) > 0 /\ Ch(s, Len(s)) \in WhiteSpace
    THEN TrimEnd(Slice(s, 1, Len(s) - 1))
    ELSE s

\* s.trim()
Trim(s) == TrimEnd(TrimStart(s))

\* s.indexOf(sub) as a 1-based position at or after from, 0 when absent
RECURSIVE IndexOf(_, _, _)
IndexOf(s, sub, from) ==
    IF from + Len(sub) - 1 > Len(s) THEN 0
    ELSE IF Slice(s, from, from + Len(sub) - 1) = sub THEN from
    ELSE IndexOf(s, sub, from + 1)

\* s.includes(sub)
Includes(s, sub) == IndexOf(s, sub, 1) > 0

\* s.split(sep), sep not empty: the pieces between the occurrences of sep,
\* found left to right without overlap
RECURSIVE Split(_, _)
Split(s, sep) ==
    LET at == IndexOf(s, sep, 1) IN
    IF at = 0 THEN <<s>>
    ELSE <<Slice(s, 1, at - 1)>> \o Split(Substring(s, at - 1 + Len(sep)), sep)

(***************************************************************************)
(* JSON values and JSON.parse.  A value is a record of one shape for every *)
(* kind, so that any two values compare.  An object keeps its keys in      *)
(* insertion order; an array's keys are its indices.                       *)
(***************************************************************************)
JValue(k, ks, vs, n, s) == [kind |-> k, keys |-> ks, vals |-> vs, num |-> n, str |-> s]
JObject(ks, vs) == JValue("object", ks, vs, 0, "")
JArray(vs) == JValue("array", <<>>, vs, 0, "")
JNumber(n) == JValue("number", <<>>, <<>>, n, "")
JString(s) == JValue("string", <<>>, <<>>, 0, s)
JTrue == JValue("boolean", <<>>, <<>>, 1, "")
JFalse == JValue("boolean", <<>>, <<>>, 0, "")
JNull == JValue("null", <<>>, <<>>, 0, "")

\* the literal {} of lines 14-16
EmptyObject == JObject(<<>>, <<>>)

\* result of a parsing step: the value and the position after it
Parsed(v, next) == [ok |-> TRUE, val |-> v, next |-> next]
SyntaxError == [ok |-> FALSE, val |-> JNull, next |-> 0]

JsonWhiteSpace == {" ", "\t", "\n", "\r"}
Digits == {"0", "1", "2", "3", "4", "5", "6", "7", "8", "9"}

DigitValue(c) ==
    CASE c = "0" -> 0 [] c = "1" -> 1 [] c = "2" -> 2 [] c = "3" -> 3
      [] c = "4" -> 4 [] c = "5" -> 5 [] c = "6" -> 6 [] c = "7" -> 7
      [] c = "8" -> 8 [] c = "9" -> 9

RECURSIVE SkipWs(_, _)
SkipWs(s, i) ==
    IF i <= Len(s) /\ Ch(s, i) \in JsonWhiteSpace THEN SkipWs(s, i + 1) ELSE i

\* the characters of a string literal from position i up to its closing
\* quote; raw control characters are rejected, the escapes \" \\ \/ \n \t
\* \r \f are decoded (\b and \uXXXX are outside the modelled alphabet)
RECURSIVE ReadString(_, _, _)
ReadString(s, i, acc) ==
    LET c == Ch(s, i)
        e == Ch(s, i + 1)
    IN  IF i > Len(s) THEN SyntaxError
        ELSE IF c = "\"" THEN Parsed(JString(acc), i + 1)
        ELSE IF c \in {"\t", "\n", "\r", "\f"} THEN SyntaxError
        ELSE IF c = "\\" THEN
             IF e \in {"\"", "\\", "/"} THEN ReadString(s, i + 2, acc \o e)
             ELSE IF e = "n" THEN ReadString(s, i + 2, acc \o "\n")
             ELSE IF e = "t" THEN ReadString(s, i + 2, acc \o "\t")
             ELSE IF e = "r" THEN ReadString(s, i + 2, acc \o "\r")
             ELSE IF e = "f" THEN ReadString(s, i + 2, acc \o "\f")
             ELSE SyntaxError
        ELSE ReadString(s, i + 1, acc \o c)

RECURSIVE ReadDigits(_, _, _)
ReadDigits(s, i, n) ==
    IF i <= Len(s) /\ Ch(s, i) \in Digits
    THEN ReadDigits(s, i + 1, 10 * n + DigitValue(Ch(s, i)))
    ELSE Parsed(JNumber(n), i)

\* an integer literal: -? (0 | [1-9][0-9]*); fractions and exponents are
\* outside the modelled alphabet
ReadNumber(s, i) ==
    LET neg == Ch(s, i) = "-"
        j == IF neg THEN i + 1 ELSE i
        r == IF Ch(s, j) = "0" THEN Parsed(JNumber(0), j + 1)
             ELSE IF Ch(s, j) \in Digits THEN ReadDigits(s, j, 0)
             ELSE SyntaxError
    IN  IF r.ok /\ neg THEN Parsed(JNumber(0 - r.val.num), r.next) ELSE r

\* position of key k in ks, 0 when absent
RECURSIVE KeyIndex(_, _, _)
KeyIndex(ks, k, i) ==
    IF i > Len(ks) THEN 0 ELSE IF ks[i] = k THEN i ELSE KeyIndex(ks, k, i + 1)

\* obj[k] = v: a repeated key keeps its place and takes the last value
SetMember(obj, k, v) ==
    LET at == KeyIndex(obj.keys, k, 1) IN
    IF at = 0 THEN JObject(Append(obj.keys, k), Append(obj.vals, v))
    ELSE JObject(obj.keys, [obj.vals EXCEPT ![at] = v])

RECURSIVE ReadValue(_, _)
RECURSIVE ReadMembers(_, _, _)
RECURSIVE ReadElements(_, _, _)

\* the members of an object from position i (after "{" or ","), obj so far
ReadMembers(s, i, obj) ==
    LET k == IF Ch(s, i) = "\"" THEN ReadString(s, i + 1, "") ELSE SyntaxError
        colon == IF k.ok THEN SkipWs(s, k.next) ELSE 0
        v == IF k.ok /\ Ch(s, colon) = ":" THEN ReadValue(s, SkipWs(s, colon + 1))
             ELSE SyntaxError
        after == IF v.ok THEN SkipWs(s, v.next) ELSE 0
    IN  IF ~v.ok THEN SyntaxError
        ELSE IF Ch(s, after) = "}" THEN Parsed(SetMember(obj, k.val.str, v.val), after + 1)
        ELSE IF Ch(s, after) = ","
             THEN ReadMembers(s, SkipWs(s, after + 1), SetMember(obj, k.val.str, v.val))
        ELSE SyntaxError

\* the elements of an array from position i (after "[" or ","), vs so far
ReadElements(s, i, vs) ==
    LET v == ReadValue(s, i)
        after == IF v.ok THEN SkipWs(s, v.next) ELSE 0
    IN  IF ~v.ok THEN SyntaxError
        ELSE IF Ch(s, after) = "]" THEN Parsed(JArray(Append(vs, v.val)), after + 1)
        ELSE IF Ch(s, after) = ","
             THEN ReadElements(s, SkipWs(s, after + 1), Append(vs, v.val))
        ELSE SyntaxError

\* one JSON value starting at position i
ReadValue(s, i) ==
    LET c == Ch(s, i) IN
    IF c = "{" THEN
        (IF Ch(s, SkipWs(s, i + 1)) = "}" THEN Parsed(EmptyObject, SkipWs(s, i + 1) + 1)
         ELSE ReadMembers(s, SkipWs(s, i + 1), EmptyObject))
    ELSE IF c = "[" THEN
        (IF Ch(s, SkipWs(s, i + 1)) = "]" THEN Parsed(JArray(<<>>), SkipWs(s, i + 1) + 1)
         ELSE ReadElements(s, SkipWs(s, i + 1), <<>>))
    ELSE IF c = "\"" THEN ReadString(s, i + 1, "")
    ELSE IF c = "-" \/ c \in Digits THEN ReadNumber(s, i)
    ELSE IF Slice(s, i, i + 3) = "true" THEN Parsed(JTrue, i + 4)
    ELSE IF Slice(s, i, i + 4) = "false" THEN Parsed(JFalse, i + 5)
    ELSE IF Slice(s, i, i + 3) = "null" THEN Parsed(JNull, i + 4)
    ELSE SyntaxError

\* JSON.parse(text): one value surrounded by optional white space, or a
\* SyntaxError (ok = FALSE)
JSONParse(text) ==
    LET v == ReadValue(text, SkipWs(text, 1)) IN
    IF v.ok /\ SkipWs(text, v.next) = Len(text) + 1 THEN v ELSE SyntaxError

(***************************************************************************)
(* parseReqline (lines 4-99).                                              *)
(***************************************************************************)
\* null of lines 12-13; no method or URL the parser stores can equal it
Null == "<null>"

\* !v for a string or null
Falsy(v) == v = Null \/ v = ""

\* the result object of lines 11-17
NewResult ==
    [method |-> Null, url |-> Null,
     headers |-> EmptyObject, query |-> EmptyObject, body |-> EmptyObject]

\* the two ways parseReqline ends: return result / throw new Error(message)
Return(result) == [threw |-> FALSE, message |-> "", result |-> result]
Throw(msg) == [threw |-> TRUE, message |-> msg, result |-> NewResult]

\* ParseMethod without the test of line 32
ParseMethodAnyToken(part, result) ==
    IF ~StartsWith(part, "HTTP ") THEN Throw("Missing required HTTP keyword")
    ELSE IF Trim(Substring(part, 5)) = "" THEN Throw("Missing HTTP method")
    ELSE Return([result EXCEPT !.method = Trim(Substring(part, 5))])

\* lines 22-36: the segment at index 0
ParseMethod(part, result) ==
    LET methodPart == Trim(Substring(part, 5)) IN
    IF ~StartsWith(part, "HTTP ") THEN Throw("Missing required HTTP keyword")
    ELSE IF methodPart = "" THEN Throw("Missing HTTP method")
    ELSE IF methodPart # "GET" /\ methodPart # "POST"
         THEN Throw("Invalid HTTP method. Only GET and POST are supported")
    ELSE Return([result EXCEPT !.method = methodPart])

\* lines 37-56: the segment at index 1
ParseUrl(part, result) ==
    LET urlPart == Trim(Substring(part, 4))
        urlParts == Split(urlPart, "/")
    IN  IF ~StartsWith(part, "URL ") THEN Throw("Missing required URL keyword")
        ELSE IF urlPart = "" THEN Throw("Missing URL value")
        ELSE IF ~StartsWith(urlPart, "http://") /\ ~StartsWith(urlPart, "https://")
             THEN Throw("Invalid URL format. Must start with http:// or https://")
        ELSE IF Len(urlParts) < 3 THEN Throw("Invalid URL format. Missing domain or path")
        ELSE Return([result EXCEPT !.url = urlPart])

\* StoreJson refusing what is no JSON object
StoreJsonObjectsOnly(result, section, json) ==
    IF ~json.ok \/ json.val.kind # "object"
    THEN Throw("Invalid JSON format in " \o section \o " section")
    ELSE IF section = "HEADERS" THEN Return([result EXCEPT !.headers = json.val])
    ELSE IF section = "QUERY" THEN Return([result EXCEPT !.query = json.val])
    ELSE Return([result EXCEPT !.body = json.val])

\* lines 61-65, 70-74 and 79-83: the try around JSON.parse, whose value
\* replaces the section's member of result
StoreJson(result, section, json) ==
    IF ~json.ok THEN Throw("Invalid JSON format in " \o section \o " section")
    ELSE IF section = "HEADERS" THEN Return([result EXCEPT !.headers = json.val])
    ELSE IF section = "QUERY" THEN Return([result EXCEPT !.query = json.val])
    ELSE Return([result EXCEPT !.body = json.val])

\* lines 57-87: a segment at index 2 or more
ParseSection(part, result) ==
    LET headersPart == Trim(Substring(part, 8))
        queryPart == Trim(Substring(part, 6))
        bodyPart == Trim(Substring(part, 5))
    IN  IF StartsWith(part, "HEADERS ") THEN
            (IF headersPart = "" THEN Return(result)
             ELSE StoreJson(result, "HEADERS", JSONParse(headersPart)))
        ELSE IF StartsWith(part, "QUERY ") THEN
            (IF queryPart = "" THEN Return(result)
             ELSE StoreJson(result, "QUERY", JSONParse(queryPart)))
        ELSE IF StartsWith(part, "BODY ") THEN
            (IF bodyPart = "" THEN Return(result)
             ELSE StoreJson(result, "BODY", JSONParse(bodyPart)))
        ELSE Throw("Unknown keyword: " \o Split(part, " ")[1])

\* the body of the loop of lines 19-88 on parts[i] (1-based here, so the
\* code's index 0 is 1)
ParsePart(parts, i, result) ==
    IF i = 1 THEN ParseMethod(Trim(parts[i]), result)
    ELSE IF i = 2 THEN ParseUrl(Trim(parts[i]), result)
    ELSE ParseSection(Trim(parts[i]), result)

\* the loop of lines 19-88 from index i on: a throw ends it, otherwise the
\* next iteration works on the result so far
RECURSIVE ParseLoop(_, _, _)
\* LoopNext going on after a throw
LoopNextIgnoringThrow(parts, i, step) == ParseLoop(parts, i + 1, step.result)

LoopNext(parts, i, step) ==
    IF step.threw THEN step ELSE ParseLoop(parts, i + 1, step.result)
ParseLoop(parts, i, result) ==
    IF i > Len(parts) THEN Return(result)
    ELSE LoopNext(parts, i, ParsePart(parts, i, result))

\* lines 90-98: the checks after the loop
CheckRequired(looped) ==
    IF looped.threw THEN looped
    ELSE IF Falsy(looped.result.method) THEN Throw("Missing required HTTP keyword")
    ELSE IF Falsy(looped.result.url) THEN Throw("Missing required URL keyword")
    ELSE looped

\* the parts of lines 5-9 on
ParseParts(parts) ==
    IF Len(parts) < 2
    THEN Throw("Invalid reqline format. Expected at least HTTP and URL parts.")
    ELSE CheckRequired(ParseLoop(parts, 1, NewResult))

\* parseReqline(reqline), lines 4-99
parseReqline(reqline) == ParseParts(Split(reqline, " | "))

(***************************************************************************)
(* Conversions the URL builder and the handler use.                        *)
(***************************************************************************)
UpperCase == "ABCDEFGHIJKLMNOPQRSTUVWXYZ"
LowerCase == "abcdefghijklmnopqrstuvwxyz"

\* s.toLowerCase() on ASCII text
RECURSIVE ToLowerCase(_)
ToLowerCase(s) ==
    IF s = "" THEN ""
    ELSE LET c == Ch(s, 1)
             k == IndexOf(UpperCase, c, 1)
         IN  (IF k > 0 THEN Ch(LowerCase, k) ELSE c) \o ToLowerCase(Substring(s, 1))

DigitChar(d) == Ch("0123456789", d + 1)

\* String(n) of an integer n
RECURSIVE NumberToString(_)
NumberToString(n) ==
    IF n < 0 THEN "-" \o NumberToString(0 - n)
    ELSE IF n < 10 THEN DigitChar(n)
    ELSE NumberToString(n \div 10) \o DigitChar(n % 10)

\* String(v) of a decoded JSON value, as template literals and
\* encodeURIComponent apply it (Array.prototype.join prints null as "")
RECURSIVE StringOf(_)
RECURSIVE JoinElements(_, _)
StringOf(v) ==
    CASE v.kind = "string" -> v.str
      [] v.kind = "number" -> NumberToString(v.num)
      [] v.kind = "boolean" -> (IF v.num = 1 THEN "true" ELSE "false")
      [] v.kind = "null" -> "null"
      [] v.kind = "object" -> "[object Object]"
      [] v.kind = "array" -> JoinElements(v.vals, 1)
JoinElements(vs, i) ==
    IF i > Len(vs) THEN ""
    ELSE (IF vs[i].kind = "null" THEN "" ELSE StringOf(vs[i]))
         \o (IF i < Len(vs) THEN "," ELSE "")
         \o JoinElements(vs, i + 1)

\* characters encodeURIComponent leaves alone
Unreserved ==
    "ABCDEFGHIJKLMNOPQRSTUVWXYZabcdefghijklmnopqrstuvwxyz0123456789-_.!~*'()"

\* the escape of one ASCII character that is not unreserved
PercentEncode(c) ==
    CASE c = " " -> "%20" [] c = "\"" -> "%22" [] c = "#" -> "%23" [] c = "$" -> "%24"
      [] c = "%" -> "%25" [] c = "&" -> "%26" [] c = "+" -> "%2B" [] c = "," -> "%2C"
      [] c = "/" -> "%2F" [] c = ":" -> "%3A" [] c = ";" -> "%3B" [] c = "<" -> "%3C"
      [] c = "=" -> "%3D" [] c = ">" -> "%3E" [] c = "?" -> "%3F" [] c = "@" -> "%40"
      [] c = "[" -> "%5B" [] c = "\\" -> "%5C" [] c = "]" -> "%5D" [] c = "^" -> "%5E"
      [] c = "{" -> "%7B" [] c = "|" -> "%7C" [] c = "}" -> "%7D"
      [] c = "\t" -> "%09" [] c = "\n" -> "%0A" [] c = "\r" -> "%0D" [] c = "\f" -> "%0C"

\* encodeURIComponent(s) on ASCII text
RECURSIVE EncodeURIComponent(_)
EncodeURIComponent(s) ==
    IF s = "" THEN ""
    ELSE LET c == Ch(s, 1) IN
         (IF Includes(Unreserved, c) THEN c ELSE PercentEncode(c))
         \o EncodeURIComponent(Substring(s, 1))

\* FalsyValue as a test for null alone
FalsyValueNullOnly(v) == v.kind = "null"

\* !v for a decoded JSON value
FalsyValue(v) ==
    \/ v.kind = "null"
    \/ v.kind = "number" /\ v.num = 0
    \/ v.kind = "boolean" /\ v.num = 0
    \/ v.kind = "string" /\ v.str = ""

\* Object.entries(v) as a sequence of <<key, value>>: the members of an
\* object, the indexed elements of an array, the indexed characters of a
\* string, nothing for a number or a boolean (null throws, see the handler)
ObjectEntries(v) ==
    CASE v.kind = "object" -> [i \in 1..Len(v.keys) |-> <<v.keys[i], v.vals[i]>>]
      [] v.kind = "array" ->
            [i \in 1..Len(v.vals) |-> <<NumberToString(i - 1), v.vals[i]>>]
      [] v.kind = "string" ->
            [i \in 1..Len(v.str) |-> <<NumberToString(i - 1), JString(Ch(v.str, i))>>]
      [] OTHER -> <<>>

\* Object.keys(v).length
ObjectKeysLength(v) == Len(ObjectEntries(v))

\* lines 108-110: the pairs from index i on, encoded and joined with "&"
RECURSIVE QueryString(_, _)
QueryString(entries, i) ==
    IF i > Len(entries) THEN ""
    ELSE EncodeURIComponent(entries[i][1]) \o "="
         \o EncodeURIComponent(StringOf(entries[i][2]))
         \o (IF i < Len(entries) THEN "&" ELSE "")
         \o QueryString(entries, i + 1)

\* buildFullUrl(baseUrl, queryParams), lines 102-113
buildFullUrl(baseUrl, queryParams) ==
    IF FalsyValue(queryParams) \/ ObjectKeysLength(queryParams) = 0 THEN baseUrl
    ELSE baseUrl \o (IF Includes(baseUrl, "?") THEN "&" ELSE "?")
         \o QueryString(ObjectEntries(queryParams), 1)

(***************************************************************************)
(* Inputs: the request bodies, and what the HTTP collaborator can answer.  *)
(***************************************************************************)
\* texts of the segment at index 0
MethodSegments ==
    {"HTTP GET", " HTTP  POST ", "HTTP ", "HTTP", "GET", "HTTP PUT", "HTTP get"}

\* texts of the segment at index 1
UrlSegments ==
    {"URL http://a.io/x", "URL https://a.io/x?q=1", "URL http://", "URL https://x.com",
     "URL ", "URL ftp://x.com/", "https://x.com/"}

\* texts of the segments at index 2 and more
SectionSegments ==
    {"HEADERS {\"a\":\"b\"}", "HEADERS", "QUERY {\"k\":1, \"a b\":\"c\"}", "QUERY [1,2]",
     "QUERY {bad", "BODY {\"a\":1}", "BODY null", "BODY 5", "BODY \"s\"", "body {}",
     "FOO bar", ""}

\* the sequences of at most n optional segments
RECURSIVE SectionLists(_)
SectionLists(n) ==
    IF n = 0 THEN {<<>>}
    ELSE SectionLists(n - 1)
         \cup {Append(l, s) : l \in {k \in SectionLists(n - 1) : Len(k) = n - 1},
                              s \in SectionSegments}

\* segments.join(" | ")
RECURSIVE Join(_, _)
Join(segments, i) ==
    IF i > Len(segments) THEN ""
    ELSE segments[i] \o (IF i < Len(segments) THEN " | " ELSE "") \o Join(segments, i + 1)

\* the first two segments of the reqlines that carry optional segments
SectionHeads ==
    {<<"HTTP GET", "URL http://a.io/x">>, <<" HTTP  POST ", "URL https://a.io/x?q=1">>,
     <<"HTTP PUT", "URL http://a.io/x">>, <<"HTTP GET", "URL ftp://x.com/">>}

\* the reqline strings of the model
Reqlines ==
    {Join(<<m, u>>, 1) : m \in MethodSegments, u \in UrlSegments}
    \cup {Join(h \o l, 1) : h \in SectionHeads, l \in SectionLists(MaxSections)}
    \cup {"HTTP GET", "HTTP GET|URL http://a.io/x", " | "}

\* rc.body: absent, an object without a reqline member, or an object whose
\* reqline is a decoded JSON value of any kind
NoBody == [present |-> FALSE, has |-> FALSE, reqline |-> JNull]
BodyWithout == [present |-> TRUE, has |-> FALSE, reqline |-> JNull]
BodyWith(v) == [present |-> TRUE, has |-> TRUE, reqline |-> v]
Bodies ==
    {NoBody, BodyWithout}
    \cup {BodyWith(v) : v \in {JNull, JString(""), JNumber(0), JNumber(5), JArray(<<>>)}}
    \cup {BodyWith(JString(r)) : r \in Reqlines}

\* a thrown or rejected value: an Error with a message, possibly carrying
\* axios's response, or a value without a message property (undefined, a
\* string, a plain object)
Error(msg) ==
    [hasMessage |-> TRUE, message |-> msg, hasResponse |-> FALSE,
     status |-> 0, statusText |-> ""]
ResponseError(status, statusText) ==
    [hasMessage |-> TRUE,
     message |-> "Request failed with status code " \o NumberToString(status),
     hasResponse |-> TRUE, status |-> status, statusText |-> statusText]
NoMessageValue ==
    [hasMessage |-> FALSE, message |-> "", hasResponse |-> FALSE,
     status |-> 0, statusText |-> ""]
NoError == Error("")

\* statuses axios resolves with (validateStatus: 2xx) and rejects with
ResolvedStatuses == {200, 204}
RejectedStatuses == {<<404, "Not Found">>, <<500, "Internal Server Error">>}

\* messages of the errors axios rejects with when no response arrived; the
\* last is Node's complaint about a header name taken from HEADERS
NetworkMessages ==
    {"timeout of 10000ms exceeded", "getaddrinfo ENOTFOUND a.io",
     "Header name must be a valid HTTP token [\"Unknown keyword\"]"}

\* milliseconds the awaited call can take, at most
MaxLatency == 1

(***************************************************************************)
(* The handler (lines 118-206).                                            *)
(***************************************************************************)
VARIABLES
    body,           \* rc.body of the invocation
    pc,             \* "start", "awaiting" (suspended at line 148), "done"
    parserCalls,    \* calls of parseReqline made by the invocation
    axiosCalls,     \* calls of axios made by the invocation
    parsed,         \* the descriptor of line 132
    requestConfig,  \* the object of lines 136-145
    now,            \* Date.now()
    requestStartTimestamp,
    caught,         \* the value the catch clause of line 171 received
    rejected,       \* TRUE when the handler's promise rejected
    ret             \* the value the handler returned

vars ==
    <<body, pc, parserCalls, axiosCalls, parsed, requestConfig, now,
      requestStartTimestamp, caught, rejected, ret>>

HTTP_200_OK == 200
HTTP_400_BAD_REQUEST == 400

\* the timeout of line 140
Timeout == 10000

NoConfig ==
    [method |-> "", url |-> "", headers |-> EmptyObject, timeout |-> 0,
     hasData |-> FALSE, data |-> EmptyObject]

\* the shapes the handler returns: nothing yet, the error envelope of
\* lines 123-129, 179-185, 189-195 and 198-204, the envelope of lines 153-170
NoReturn ==
    [status |-> 0, error |-> FALSE, message |-> "", full_url |-> "",
     http_status |-> 0, duration |-> 0, request_start_timestamp |-> 0,
     request_stop_timestamp |-> 0]
ErrorEnvelope(msg) ==
    [NoReturn EXCEPT !.status = HTTP_400_BAD_REQUEST, !.error = TRUE, !.message = msg]
Envelope(fullUrl, status, start, stop) ==
    [NoReturn EXCEPT !.status = HTTP_200_OK, !.full_url = fullUrl,
                     !.http_status = status, !.duration = stop - start,
                     !.request_start_timestamp = start,
                     !.request_stop_timestamp = stop]

\* the substrings lines 173-177 look for
ParserMarkers ==
    {"Invalid reqline format", "Missing required", "Invalid HTTP method",
     "Invalid JSON format", "Unknown keyword"}

\* the catch clause, lines 171-205: what the handler does with error.
\* Reading .message of undefined, or .includes of an undefined message,
\* throws a TypeError out of the clause, and the handler rejects.
Catch(error) ==
    IF ~error.hasMessage THEN [rejected |-> TRUE, ret |-> NoReturn]
    ELSE IF \E m \in ParserMarkers : Includes(error.message, m)
         THEN [rejected |-> FALSE, ret |-> ErrorEnvelope(error.message)]
    ELSE IF error.hasResponse
         THEN [rejected |-> FALSE,
               ret |-> ErrorEnvelope("HTTP request failed: "
                                     \o NumberToString(error.status) \o " "
                                     \o error.statusText)]
    ELSE [rejected |-> FALSE, ret |-> ErrorEnvelope("Network error: " \o error.message)]

\* the handler ends in its catch clause with error
EndInCatch(error) ==
    /\ caught' = error
    /\ rejected' = Catch(error).rejected
    /\ ret' = Catch(error).ret
    /\ pc' = "done"

\* lines 136-145
RequestConfig(descriptor) ==
    [method |-> ToLowerCase(descriptor.method),
     url |-> buildFullUrl(descriptor.url, descriptor.query),
     headers |-> descriptor.headers,
     timeout |-> Timeout,
     hasData |-> descriptor.method = "POST" /\ ObjectKeysLength(descriptor.body) > 0,
     data |-> IF descriptor.method = "POST" /\ ObjectKeysLength(descriptor.body) > 0
              THEN descriptor.body ELSE EmptyObject]

\* lines 132-148: the handler once parseReqline has ended as p
AfterParse(p) ==
    IF p.threw THEN
        /\ EndInCatch(Error(p.message))
        /\ UNCHANGED <<axiosCalls, parsed, requestConfig, requestStartTimestamp>>
    ELSE IF p.result.method = "POST" /\ p.result.body.kind = "null" THEN
        \* line 143: Object.keys(null)
        /\ parsed' = p.result
        /\ EndInCatch(Error("Cannot convert undefined or null to object"))
        /\ UNCHANGED <<axiosCalls, requestConfig, requestStartTimestamp>>
    ELSE
        /\ parsed' = p.result
        /\ requestConfig' = RequestConfig(p.result)
        /\ requestStartTimestamp' = now
        /\ axiosCalls' = axiosCalls + 1
        /\ pc' = "awaiting"
        /\ UNCHANGED <<caught, rejected, ret>>

\* lines 119-148: the handler from its call to the awaited axios call, or to
\* its return when it ends before
HandlerBegin ==
    /\ pc = "start"
    /\ UNCHANGED <<body, now>>
    /\ IF ~body.present THEN
            \* line 120 destructures undefined
            /\ EndInCatch(Error("Cannot destructure property 'reqline' of 'rc.body' as it is undefined."))
            /\ UNCHANGED <<parserCalls, axiosCalls, parsed, requestConfig, requestStartTimestamp>>
       ELSE IF ~body.has \/ FalsyValue(body.reqline) THEN
            \* lines 122-130
            /\ ret' = ErrorEnvelope("Missing reqline parameter")
            /\ pc' = "done"
            /\ UNCHANGED <<parserCalls, axiosCalls, parsed, requestConfig,
                           requestStartTimestamp, caught, rejected>>
       ELSE IF body.reqline.kind # "string" THEN
            \* line 5 calls split on a value that has none
            /\ parserCalls' = parserCalls + 1
            /\ EndInCatch(Error("reqline.split is not a function"))
            /\ UNCHANGED <<axiosCalls, parsed, requestConfig, requestStartTimestamp>>
       ELSE /\ parserCalls' = parserCalls + 1
            /\ AfterParse(parseReqline(body.reqline.str))

\* lines 148-170: axios resolves after d milliseconds
AxiosResolve ==
    /\ pc = "awaiting"
    /\ \E status \in ResolvedStatuses, d \in 0..MaxLatency :
          /\ now' = now + d
          /\ ret' = Envelope(requestConfig.url, status, requestStartTimestamp, now + d)
    /\ pc' = "done"
    /\ UNCHANGED <<body, parserCalls, axiosCalls, parsed, requestConfig,
                   requestStartTimestamp, caught, rejected>>

\* AxiosReject calling axios a second time
AxiosRejectRetrying(error) ==
    /\ pc = "awaiting"
    /\ axiosCalls <= 1
    /\ axiosCalls' = axiosCalls + 1
    /\ UNCHANGED <<body, pc, parserCalls, parsed, requestConfig, now,
                   requestStartTimestamp, caught, rejected, ret>>

\* line 148 throws what axios rejected with; lines 171-205 handle it
AxiosReject(error) ==
    /\ pc = "awaiting"
    /\ EndInCatch(error)
    /\ UNCHANGED <<body, parserCalls, axiosCalls, parsed, requestConfig, now,
                   requestStartTimestamp>>

\* the upstream answered with an error status
AxiosRejectResponse ==
    \E r \in RejectedStatuses : AxiosReject(ResponseError(r[1], r[2]))

\* no answer arrived: DNS, connection, timeout, a request Node refused
AxiosRejectNetwork ==
    \E m \in NetworkMessages : AxiosReject(Error(m))

\* a rejection with a value that is no Error
AxiosRejectUnexpected == AxiosReject(NoMessageValue)

Init ==
    /\ body \in Bodies
    /\ pc = "start"
    /\ parserCalls = 0
    /\ axiosCalls = 0
    /\ parsed = NewResult
    /\ requestConfig = NoConfig
    /\ now = 0
    /\ requestStartTimestamp = 0
    /\ caught = NoError
    /\ rejected = FALSE
    /\ ret = NoReturn

Next ==
    \/ HandlerBegin
    \/ AxiosResolve
    \/ AxiosRejectResponse
    \/ AxiosRejectNetwork
    \/ AxiosRejectUnexpected

Spec == Init /\ [][Next]_vars

(***************************************************************************)
(* What the properties below read off a state.                             *)
(***************************************************************************)
\* the body carries a non-empty string, which the handler hands to
\* parseReqline
IsReqline ==
    body.present /\ body.has /\ body.reqline.kind = "string" /\ body.reqline.str # ""

\* the segments of the reqline of the invocation
Segments == Split(body.reqline.str, " | ")

\* parseReqline returned a descriptor to the handler (line 132 completed)
DescriptorReturned == pc # "start" /\ parsed # NewResult

\* the handler ended in its catch clause with a thrown Error of parseReqline
ParserThrew ==
    pc = "done" /\ IsReqline /\ parserCalls = 1 /\ axiosCalls = 0 /\ parsed = NewResult

\* the text before the first space: part.split(' ')[0]
FirstWord(s) == IF IndexOf(s, " ", 1) = 0 THEN s ELSE Slice(s, 1, IndexOf(s, " ", 1) - 1)

\* the segment parts[i], taken alone, is one the loop accepts
SegmentValid(parts, i) == ~ParsePart(parts, i, NewResult).threw

\* the lowest index from i on of a segment the loop does not accept, 0 when
\* there is none
RECURSIVE FirstInvalid(_, _)
FirstInvalid(parts, i) ==
    IF i > Len(parts) THEN 0
    ELSE IF ~SegmentValid(parts, i) THEN i
    ELSE FirstInvalid(parts, i + 1)

\* the keyword s begins with, when it is one of the three optional ones
SectionOf(s) ==
    IF StartsWith(s, "HEADERS ") THEN "HEADERS"
    ELSE IF StartsWith(s, "QUERY ") THEN "QUERY"
    ELSE IF StartsWith(s, "BODY ") THEN "BODY"
    ELSE ""

\* the text after the keyword of a section segment
SectionText(s) == Trim(Substring(s, Len(SectionOf(s)) + 1))

\* the index at or below i of the last segment of the section sec, 0 when
\* there is none
RECURSIVE LastSection(_, _, _)
LastSection(parts, sec, i) ==
    IF i < 3 THEN 0
    ELSE IF SectionOf(Trim(parts[i])) = sec THEN i
    ELSE LastSection(parts, sec, i - 1)

\* the member of a descriptor that the section sec fills
Member(descriptor, sec) ==
    IF sec = "HEADERS" THEN descriptor.headers
    ELSE IF sec = "QUERY" THEN descriptor.query
    ELSE descriptor.body

Sections == {"HEADERS", "QUERY", "BODY"}

(***************************************************************************)
(* The claims.                                                             *)
(***************************************************************************)

\* C1: whenever parseReqline fails, whichever message it raises, the handler
\* returns status 400 with data.message equal to the parser's message,
\* unchanged and without a prefix.
C1_ParserMessageVerbatim ==
    ParserThrew =>
        /\ ~rejected
        /\ ret.status = HTTP_400_BAD_REQUEST
        /\ ret.message = caught.message

\* C2: every invocation ends by returning status 200 or 400 and never throws
\* out of the handler; 200 only when parsing succeeded and the collaborator
\* resolved, and every failure yields 400 with error: true.
C2_AlwaysReturns ==
    pc = "done" =>
        /\ ~rejected
        /\ ret.status \in {HTTP_200_OK, HTTP_400_BAD_REQUEST}
        /\ ret.status = HTTP_200_OK => (DescriptorReturned /\ caught = NoError)
        /\ ret.status = HTTP_400_BAD_REQUEST => ret.error

\* C3: a body without a reqline member, or with an empty one, is answered
\* with status 400, {error: true, message: 'Missing reqline parameter'}, and
\* neither parseReqline nor axios is called.
C3_MissingReqline ==
    (pc = "done" /\ body.present /\ (~body.has \/ body.reqline = JString(""))) =>
        /\ ~rejected
        /\ ret = ErrorEnvelope("Missing reqline parameter")
        /\ parserCalls = 0
        /\ axiosCalls = 0

C3_Witness ==
    /\ pc = "done"
    /\ body = BodyWith(JString(""))
    /\ ret.message = "Missing reqline parameter"

\* C4: a descriptor parseReqline returns has method exactly GET or POST and
\* a non-empty url beginning with http:// or https://, and they are the
\* tokens of segments 0 and 1; so an input whose segment 0 or 1 carries
\* anything else gets no descriptor.
C4_DescriptorValid ==
    DescriptorReturned =>
        LET parts == Segments IN
        /\ parsed.method \in {"GET", "POST"}
        /\ parsed.url # ""
        /\ StartsWith(parsed.url, "http://") \/ StartsWith(parsed.url, "https://")
        /\ Len(parts) >= 2
        /\ StartsWith(TrimStart(parts[1]), "HTTP ")
        /\ Trim(Substring(TrimStart(parts[1]), 5)) = parsed.method
        /\ StartsWith(TrimStart(parts[2]), "URL ")
        /\ Trim(Substring(TrimStart(parts[2]), 4)) = parsed.url

C4_Witness ==
    /\ pc = "awaiting"
    /\ parsed.method = "POST"
    /\ parsed.url = "https://a.io/x?q=1"

\* the part of a URL after its scheme
AfterScheme(url) ==
    IF StartsWith(url, "https://") THEN Substring(url, 8) ELSE Substring(url, 7)

\* C5: every url parseReqline accepts has, after the scheme, a domain and
\* something after it: 'http://' alone or 'https://x.com' without a further
\* '/' is rejected.
C5_AcceptedUrlHasDomainAndPath ==
    DescriptorReturned =>
        /\ Len(Split(AfterScheme(parsed.url), "/")) >= 2
        /\ Split(AfterScheme(parsed.url), "/")[1] # ""

\* C6 as stated: the HEADERS, QUERY and BODY members of a returned
\* descriptor are the default empty mapping or a decoded JSON object.
C6_SectionsAreObjects ==
    DescriptorReturned => \A sec \in Sections : Member(parsed, sec).kind = "object"

\* C6 as amended: each member of a returned descriptor is the default empty
\* mapping when the reqline has no such section, and otherwise the value
\* JSON.parse decodes from the text of the last such section, whatever its
\* JSON type; a reqline with valid segments 0 and 1 whose further segments
\* are sections of well-formed JSON of any type gets a descriptor; a section
\* of malformed JSON, the segments before it being valid, fails with
\* 'Invalid JSON format in <SECTION> section'.
C6_SectionsAreDecodedJson ==
    (pc # "start" /\ IsReqline) =>
        LET parts == Segments
            bad == FirstInvalid(parts, 1)
        IN  Len(parts) >= 2 =>
            /\ (/\ SegmentValid(parts, 1)
                /\ SegmentValid(parts, 2)
                /\ \A i \in 3..Len(parts) :
                      /\ SectionOf(Trim(parts[i])) # ""
                      /\ JSONParse(SectionText(Trim(parts[i]))).ok)
               => DescriptorReturned
            /\ DescriptorReturned =>
                  \A sec \in Sections :
                      LET last == LastSection(parts, sec, Len(parts))
                          json == JSONParse(SectionText(Trim(parts[last])))
                      IN  IF last = 0 THEN Member(parsed, sec) = EmptyObject
                          ELSE json.ok /\ Member(parsed, sec) = json.val
            /\ (/\ bad >= 3
                /\ SectionOf(Trim(parts[bad])) # ""
                /\ ~JSONParse(SectionText(Trim(parts[bad]))).ok)
               => /\ ParserThrew
                  /\ caught.message =
                        "Invalid JSON format in " \o SectionOf(Trim(parts[bad])) \o " section"

C6_Witness ==
    /\ pc = "awaiting"
    /\ parsed.query.kind = "array"
    /\ parsed.body.kind = "number"

\* C7: after a successful parse, a rejection carrying a response is answered
\* with 'HTTP request failed: <status> <statusText>' and a rejection with
\* any other error with 'Network error: <message>', whatever the message.
C7_CollaboratorErrorMessages ==
    (pc = "done" /\ axiosCalls = 1 /\ caught # NoError /\ caught.hasMessage) =>
        /\ ~rejected
        /\ ret.status = HTTP_400_BAD_REQUEST
        /\ ret.message =
              IF caught.hasResponse
              THEN "HTTP request failed: " \o NumberToString(caught.status)
                   \o " " \o caught.statusText
              ELSE "Network error: " \o caught.message

\* C8: axios is called at most once in an invocation, never again after it
\* failed, and only once parseReqline has returned a descriptor: when
\* parsing throws there is no call.
C8_SingleCallAfterParse ==
    /\ axiosCalls <= 1
    /\ axiosCalls = 1 => (parserCalls = 1 /\ DescriptorReturned)
    /\ (pc # "start" /\ IsReqline /\ FirstInvalid(Segments, 1) # 0) => axiosCalls = 0
    /\ (pc # "start" /\ IsReqline /\ Len(Segments) < 2) => axiosCalls = 0

C8_Witness ==
    /\ pc = "done"
    /\ axiosCalls = 1
    /\ caught = Error("timeout of 10000ms exceeded")

\* white space only, and some
Blank(s) == s # "" /\ Trim(s) = ""

\* C9: segment 0 with the HTTP keyword followed only by white space fails
\* with 'Missing HTTP method'; segment 1 with the URL keyword followed only
\* by white space fails with 'Missing URL value'.
C9_EmptyTokenMessages ==
    (pc = "done" /\ IsReqline) =>
        LET parts == Segments IN
        Len(parts) >= 2 =>
            /\ (/\ StartsWith(TrimStart(parts[1]), "HTTP")
                /\ Blank(Substring(TrimStart(parts[1]), 4)))
               => (ParserThrew /\ caught.message = "Missing HTTP method")
            /\ (/\ SegmentValid(parts, 1)
                /\ StartsWith(TrimStart(parts[2]), "URL")
                /\ Blank(Substring(TrimStart(parts[2]), 3)))
               => (ParserThrew /\ caught.message = "Missing URL value")

\* C10: with at least 2 segments, parseReqline fails with the error of the
\* lowest-indexed invalid segment and returns no descriptor, and returns one
\* when no segment is invalid; a segment at index >= 2 that starts with none
\* of 'HEADERS ', 'QUERY ', 'BODY ', the segments before it being valid,
\* fails with 'Unknown keyword: <first word of the segment>'.
C10_FirstInvalidSegmentDecides ==
    (pc # "start" /\ IsReqline) =>
        LET parts == Segments
            bad == FirstInvalid(parts, 1)
        IN  Len(parts) >= 2 =>
            /\ bad = 0 <=> DescriptorReturned
            /\ bad # 0 =>
                  /\ ParserThrew
                  /\ caught = Error(ParsePart(parts, bad, NewResult).message)
            /\ (bad >= 3 /\ SectionOf(Trim(parts[bad])) = "")
               => /\ caught.message = "Unknown keyword: " \o FirstWord(Trim(parts[bad]))
                  /\ ret = ErrorEnvelope(caught.message)

C10_Witness ==
    /\ pc = "done"
    /\ body = BodyWith(JString("HTTP GET | URL http://a.io/x | HEADERS | QUERY {bad"))
    /\ ret.message = "Unknown keyword: HEADERS"

====
